---- MODULE Spec2Model ----
(***************************************************************************)
(* Model of src/src/index.ts of simple-fetch-api: one call of apiFetch     *)
(* (fetchCore, buildUrl, parseResponse, delay, combineAbortSignals) run    *)
(* against an environment made of the fetch transport, the timer queue and *)
(* the caller's AbortController.  JavaScript is run-to-completion: every   *)
(* action below is one task of the event loop together with the microtasks *)
(* it triggers, i.e. the code from one suspension point (await fetch,      *)
(* await parseResponse, await delay) up to the next one or to the return.  *)
(***************************************************************************)
EXTENDS Integers, Sequences, FiniteSets, TLC

----------------------------------------------------------------------------
(* Bounds of the checked instance *)

MaxRetries == 2
MaxDelay   == 1
MaxTimeout == 2

----------------------------------------------------------------------------
(* Values *)

\* an option that the caller did not provide (undefined)
Absent == -1

\* the null that lastResult is initialised with (index.ts:335)
Null == [null |-> TRUE]

\* retryOn default, index.ts:332
DefaultRetryOn == {408, 429, 500, 502, 503, 504}

\* errorMap, index.ts:16-19
errorMap == [NETWORK_ERROR |-> "Network Error", TIMEOUT |-> "Request Timeout"]

\* ResponseType, index.ts:11
ResponseTypes == {"json", "text", "blob", "arrayBuffer"}

\* a decode mode outside ResponseType, reachable when the option type is bypassed
UnsupportedType == "xml"

\* the responses the modelled endpoint can give: status and statusText
\* (an HTTP/2 response has an empty statusText)
Responses ==
    { [status |-> 200, statusText |-> "OK"],
      [status |-> 404, statusText |-> "Not Found"],
      [status |-> 500, statusText |-> ""],
      [status |-> 503, statusText |-> "Service Unavailable"] }

\* an option of string type that the caller did not provide (undefined)
Undefined == "undefined"

\* a params option that was not provided: `given` tells undefined from {}
NoParams == [given |-> FALSE, entries |-> << >>]

\* a headers option that was not provided
NoHeaders == [form |-> "none", entries |-> << >>]

\* the params mapping { limit: 10 }: its entries in the order they were
\* written; a value is a number, a string or a boolean
LimitParams == [given |-> TRUE, entries |-> << [key |-> "limit", value |-> [num |-> 10]] >>]

\* the retryOn lists a caller passes: one status, the empty list
RetryOnChoices == {{500}, {}}

\* RetryOptions, index.ts:59-66; maxRetries is any integer, -1 included;
\* hasRetryOn = FALSE stands for a policy without retryOn
RetryPolicies ==
    { p \in [ maxRetries : -1 .. MaxRetries, retryDelay : 0 .. MaxDelay,
              hasRetryOn : BOOLEAN, retryOn : RetryOnChoices ] :
        ~p.hasRetryOn => p.retryOn = {} }

NoRetryPolicy == [absent |-> TRUE]

\* ApiFetchOptions, index.ts:71-92:
\*   url        an absolute address or a relative one (new URL(url) throws)
\*   params     absent, or the entries of the mapping as written
\*   headers    absent, or a HeadersInit: its form and its entries
\*   body       "absent" (undefined), "plain" (JSON.stringify works),
\*              "cyclic" (JSON.stringify throws TypeError)
\*   hasSignal  an external AbortSignal is supplied
RequestDescriptions ==
    [ url               : {"https://x/y", "/api/users"},
      params            : {NoParams, LimitParams},
      method            : {Undefined},
      headers           : {NoHeaders},
      body              : {"absent", "plain", "cyclic"},
      skipBodyStringify : BOOLEAN,
      responseType      : ResponseTypes \cup {UnsupportedType},
      timeoutMs         : {Absent} \cup (0 .. MaxTimeout),
      retry             : {NoRetryPolicy} \cup RetryPolicies,
      hasSignal         : BOOLEAN ]

----------------------------------------------------------------------------
VARIABLES
    opts,          \* the request description of the call
    pc,            \* "idle", "fetching", "parsing", "delaying", "done", "thrown"
    attempt,       \* the loop variable of the retry loop (index.ts:337)
    lastResult,    \* index.ts:335
    result,        \* the value apiFetch resolved to, Null before
    now,           \* the clock of the timer queue
    timeoutState,  \* the deadline timer: "none", "armed", "fired", "cleared"
    timeoutDue,
    delayState,    \* the timer of delay(): "none", "armed"
    delayDue,
    extAborted,    \* externalSignal.aborted
    intAborted,    \* internalController.signal.aborted
    combAborted,   \* aborted flag of the controller made by combineAbortSignals
    listeners,     \* the sources that carry an abort listener of the merge
    inflight,      \* attempts whose fetch or body read is pending
    log,           \* history: one record per fetchCore invocation
    waits,         \* history: one record per delay() awaited
    res,           \* the Response whose body is being decoded, Null otherwise
    fetches,       \* history: number of fetch() calls issued
    responses,     \* history: number of times the transport settled a fetch by itself
    peer,          \* the other call of the program (its variables, as a record) when
                   \* two calls run interleaved, Null when there is one call only
    invocation     \* the exported function the caller invoked and its arguments

vars == << opts, pc, attempt, lastResult, result, now, timeoutState, timeoutDue,
           delayState, delayDue, extAborted, intAborted, combAborted, listeners,
           inflight, log, waits, res, fetches, responses, peer, invocation >>

----------------------------------------------------------------------------
(* Pure parts of the code *)

\* new URL(base): the parts of an absolute address as the URL parser keeps
\* them (a missing path becomes "/", the query is held as a list of decoded
\* pairs, the fragment stays last); any other base throws TypeError
ParseUrl(base) ==
    CASE base = "https://x/y"     -> [ok |-> TRUE, prefix |-> "https://x/y", query |-> << >>,
                                      hash |-> ""]
      [] base = "https://x"       -> [ok |-> TRUE, prefix |-> "https://x/", query |-> << >>,
                                      hash |-> ""]
      [] base = "https://x/y?q=0" -> [ok |-> TRUE, prefix |-> "https://x/y",
                                      query |-> << [key |-> "q", value |-> "0"] >>,
                                      hash |-> ""]
      [] base = "https://x/y#top" -> [ok |-> TRUE, prefix |-> "https://x/y", query |-> << >>,
                                      hash |-> "#top"]
      [] OTHER                    -> [ok |-> FALSE]

\* the keys that are canonical array indices, with their numeric value
IsIndexKey(k) == k \in {"1", "2", "10"}

IndexOfKey(k) == CASE k = "1" -> 1 [] k = "2" -> 2 [] k = "10" -> 10 [] OTHER -> 0

\* Object.keys / Object.entries of a plain object (OrdinaryOwnPropertyKeys):
\* the index keys in ascending numeric order, then the other string keys in
\* the order in which they were created
ObjectEntries(m) ==
    SortSeq(SelectSeq(m, LAMBDA e : IsIndexKey(e.key)),
            LAMBDA e, f : IndexOfKey(e.key) < IndexOfKey(f.key))
        \o SelectSeq(m, LAMBDA e : ~IsIndexKey(e.key))

\* String(value) of a number, a boolean and a string
StringOf(v) ==
    IF "num" \in DOMAIN v
    THEN CASE v.num = 1 -> "1" [] v.num = 2 -> "2" [] v.num = 10 -> "10" [] OTHER -> "0"
    ELSE IF "bool" \in DOMAIN v
    THEN IF v.bool THEN "true" ELSE "false"
    ELSE v.str

\* the application/x-www-form-urlencoded serializer of URLSearchParams on a
\* name or a value: a space becomes "+", "&" is percent-encoded
FormEncode(t) ==
    CASE t = "two words" -> "two+words"
      [] t = "a&b"       -> "a%26b"
      [] OTHER           -> t

\* the serialized list of pairs: name=value joined by "&"
RECURSIVE SerializePairs(_)
SerializePairs(q) ==
    IF q = << >> THEN ""
    ELSE FormEncode(q[1].key) \o "=" \o FormEncode(q[1].value)
         \o (IF Len(q) = 1 THEN "" ELSE "&" \o SerializePairs(Tail(q)))

\* url.toString(): the query goes between the path and the fragment
SerializeUrl(u, q) ==
    u.prefix \o (IF q = << >> THEN "" ELSE "?" \o SerializePairs(q)) \o u.hash

\* url.searchParams.append(key, String(value)) for each of Object.entries(params)
AppendAll(q, m) ==
    q \o [i \in 1 .. Len(ObjectEntries(m)) |->
            [key |-> ObjectEntries(m)[i].key, value |-> StringOf(ObjectEntries(m)[i].value)]]

\* `!params || Object.keys(params).length === 0`
NoQuery(params) == ~params.given \/ params.entries = << >>

\* fault variant of buildUrl: one URL object is kept across the attempts of
\* a call, so that every further attempt appends the params once more
BuildUrlAccumulating(base, params) ==
    IF NoQuery(params) THEN [threw |-> FALSE, url |-> base]
    ELSE IF ~ParseUrl(base).ok THEN [threw |-> TRUE]
    ELSE [threw |-> FALSE,
          url |-> SerializeUrl(ParseUrl(base),
                    IF fetches = 0 THEN AppendAll(ParseUrl(base).query, params.entries)
                    ELSE AppendAll(AppendAll(ParseUrl(base).query, params.entries),
                                   params.entries))]

\* buildUrl, index.ts:101-115
BuildUrl(base, params) ==
    IF NoQuery(params) THEN [threw |-> FALSE, url |-> base]
    ELSE IF ~ParseUrl(base).ok THEN [threw |-> TRUE]
    ELSE [threw |-> FALSE,
          url |-> SerializeUrl(ParseUrl(base), AppendAll(ParseUrl(base).query, params.entries))]

\* buildUrl: with a non-empty params mapping the base goes through new URL(),
\* which throws TypeError on a base that is not an absolute URL
BuildUrlThrows(o) == BuildUrl(o.url, o.params).threw

\* the property name of the i-th element of an array
IndexName(i) == CASE i = 1 -> "0" [] i = 2 -> "1" [] OTHER -> "2"

\* the own enumerable properties that `...headers` copies: the entries of a
\* plain object, the elements of an array of pairs under their indices (each
\* element an array, whose string form is "name,value"), nothing for a
\* Headers instance (it keeps its entries in internal slots) or undefined
SpreadOf(h) ==
    CASE h.form = "record" -> h.entries
      [] h.form = "pairs"  -> [i \in 1 .. Len(h.entries) |->
                                 [name |-> IndexName(i),
                                  value |-> h.entries[i].name \o "," \o h.entries[i].value]]
      [] OTHER             -> << >>

\* an object literal after `...src`: a key that exists keeps its place and
\* takes the new value, a new key goes last
RECURSIVE Overlay(_, _)
Overlay(obj, src) ==
    IF src = << >> THEN obj
    ELSE LET e   == Head(src)
             at  == {i \in 1 .. Len(obj) : obj[i].name = e.name}
             upd == IF at = {} THEN Append(obj, e)
                    ELSE [i \in 1 .. Len(obj) |-> IF i \in at THEN e ELSE obj[i]]
         IN  Overlay(upd, Tail(src))

\* `responseType === "json" && { "Content-Type": "application/json" }`
DefaultHeaders(rt) ==
    IF rt = "json" THEN << [name |-> "Content-Type", value |-> "application/json"] >>
    ELSE << >>

\* requestInit.headers, index.ts:173-176
RequestHeaders(o) == Overlay(DefaultHeaders(o.responseType), SpreadOf(o.headers))

\* `method = "GET"` of the destructuring
MethodOf(o) == IF o.method = Undefined THEN "GET" ELSE o.method

\* requestInit.body, index.ts:180-184
RequestBody(o) ==
    IF o.body = "absent" THEN Undefined
    ELSE IF o.skipBodyStringify THEN o.body
    ELSE "JSON.stringify(" \o o.body \o ")"

\* the signal apiFetch hands to every fetchCore, index.ts:313-315
SignalOf(o) == IF o.hasSignal THEN "combinedSignal" ELSE "internalController.signal"

\* the arguments of fetch(fullUrl, requestInit), index.ts:168-186
FetchRequest(o) ==
    [ url |-> BuildUrl(o.url, o.params).url, method |-> MethodOf(o),
      headers |-> RequestHeaders(o), body |-> RequestBody(o), signal |-> SignalOf(o) ]

\* JSON.stringify(body) of fetchCore, inside the try block
StringifyThrows(o) == o.body = "cyclic" /\ ~o.skipBodyStringify

\* `HTTP error ${res.status}`
HttpErrorText(status) ==
    CASE status = 404 -> "HTTP error 404"
      [] status = 500 -> "HTTP error 500"
      [] status = 503 -> "HTTP error 503"
      [] OTHER        -> "HTTP error"

\* `Failed to parse ${responseType} response`
ParseMessage(rt) ==
    CASE rt = "json"        -> "Failed to parse json response"
      [] rt = "text"        -> "Failed to parse text response"
      [] rt = "blob"        -> "Failed to parse blob response"
      [] rt = "arrayBuffer" -> "Failed to parse arrayBuffer response"
      [] OTHER              -> "Failed to parse xml response"

\* res.ok of the Response
ResOk(r) == r.status >= 200 /\ r.status <= 299

\* fault variant of the http Failure: the message stands in for statusText
HttpFailureMessageOnly(r) ==
    [ ok |-> FALSE,
      error |-> [ type |-> "http", status |-> r.status,
                  statusText |-> IF r.statusText # "" THEN r.statusText
                                 ELSE HttpErrorText(r.status),
                  message |-> IF r.statusText # "" THEN r.statusText
                              ELSE HttpErrorText(r.status) ] ]

HttpFailure(r) ==
    [ ok |-> FALSE,
      error |-> [ type |-> "http", status |-> r.status, statusText |-> r.statusText,
                  message |-> IF r.statusText # "" THEN r.statusText
                              ELSE HttpErrorText(r.status) ] ]

ParseFailure(rt, err) ==
    [ ok |-> FALSE, error |-> [ type |-> "parse", message |-> ParseMessage(rt), raw |-> err ] ]

TimeoutFailure ==
    [ ok |-> FALSE, error |-> [ type |-> "network", message |-> errorMap.TIMEOUT ] ]

\* fault variant of the network Failure: a status of 0 is attached
NetworkFailureWithStatus(err) ==
    [ ok |-> FALSE,
      error |-> [ type |-> "network", status |-> 0, message |-> errorMap.NETWORK_ERROR,
                  raw |-> err ] ]

NetworkFailure(err) ==
    [ ok |-> FALSE,
      error |-> [ type |-> "network", message |-> errorMap.NETWORK_ERROR, raw |-> err ] ]

Success(r, rt) ==
    [ ok |-> TRUE, data |-> [decodedAs |-> rt], status |-> r.status,
      statusText |-> r.statusText, headers |-> "headers" ]

\* parseResponse: the default branch of the switch throws before any await
ParseThrowsAtOnce(rt) == rt \notin ResponseTypes

\* `!retry || retry.maxRetries === 0`
NoRetry(retry) == retry = NoRetryPolicy \/ retry.maxRetries = 0

\* fault variant of the retryOn default: the defaults are added to the list
RetryOnOfAdditive(retry) == retry.retryOn \cup DefaultRetryOn

\* fault variant of the retryOn default: a list kept at module level, which
\* the retryOn of another call has overwritten
RetryOnOfShared(retry) ==
    IF retry.hasRetryOn THEN retry.retryOn
    ELSE IF peer # Null /\ peer.opts.retry # NoRetryPolicy /\ peer.opts.retry.hasRetryOn
         THEN peer.opts.retry.retryOn
         ELSE DefaultRetryOn

\* `retryOn = [408, 429, 500, 502, 503, 504]` of the destructuring
RetryOnOf(retry) == IF retry.hasRetryOn THEN retry.retryOn ELSE DefaultRetryOn

\* fault variant of shouldRetry: maxRetries taken as the total number of tries
ShouldRetryTotal(r, a, retry) ==
    /\ a < retry.maxRetries - 1
    /\ r.error.type = "http"
    /\ "status" \in DOMAIN r.error
    /\ r.error.status \in RetryOnOf(retry)

\* fault variant of shouldRetry: the retryOn.includes test is missing
ShouldRetryAnyStatus(r, a, retry) ==
    /\ a < retry.maxRetries
    /\ r.error.type = "http"
    /\ "status" \in DOMAIN r.error

\* fault variant of shouldRetry: network and parse Failures are retried too
ShouldRetryAnyFailure(r, a, retry) ==
    /\ a < retry.maxRetries
    /\ r.error.type = "http" => r.error.status \in RetryOnOf(retry)

\* shouldRetry
ShouldRetry(r, a, retry) ==
    /\ a < retry.maxRetries
    /\ r.error.type = "http"
    /\ "status" \in DOMAIN r.error
    /\ r.error.status \in RetryOnOf(retry)

\* fault variant of the loop body: the early return on Success is missing
DecideNoEarlyReturn(o, r, a) ==
    IF NoRetry(o.retry) THEN "return"
    ELSE IF r.ok /\ a < o.retry.maxRetries THEN "delay"
    ELSE IF ~r.ok /\ ShouldRetry(r, a, o.retry) THEN "delay"
    ELSE "return"

\* what apiFetch does with the Outcome r of attempt a
Decide(o, r, a) ==
    IF NoRetry(o.retry) THEN "return"
    ELSE IF r.ok THEN "return"
    ELSE IF ShouldRetry(r, a, o.retry) THEN "delay"
    ELSE "return"

\* `timeoutMs ? setTimeout(...) : null`: undefined and 0 arm nothing
ArmTimeout(ms) == IF ms # Absent /\ ms # 0 THEN "armed" ELSE "none"

\* fault variant of the finally block: the deadline timer is left armed
ClearTimeoutForgotten(ts) == ts

\* `if (timeout) clearTimeout(timeout)` of the finally block
ClearTimeout(ts) == IF ts = "armed" THEN "cleared" ELSE ts

\* fault variant of delay(): the timer is set without its duration
DelayDueNow(t, ms) == t

\* setTimeout(resolve, ms) of delay(): the time at which the timer is due
DelayDue(t, ms) == t + ms

\* fault variant of combineAbortSignals: the loop stops after the first signal
CombineExternalOnly(extFired) ==
    IF extFired THEN [aborted |-> TRUE, listeners |-> {}]
    ELSE [aborted |-> FALSE, listeners |-> {"external"}]

\* combineAbortSignals([external, internal]) at the call: the internal source
\* is fresh; an external token that is already fired fires the merge and
\* breaks the loop before any listener is added
CombineAbortSignals(extFired) ==
    IF extFired THEN [aborted |-> TRUE, listeners |-> {}]
    ELSE [aborted |-> FALSE, listeners |-> {"external", "internal"}]

\* fault variant of requestInit.signal: only a merged signal reaches fetch
ObservedMergedOnly(o, comb, int) == IF o.hasSignal THEN comb ELSE FALSE

\* the signal handed to fetch
Observed(o, comb, int) == IF o.hasSignal THEN comb ELSE int

----------------------------------------------------------------------------
(* The call-side continuations.  ts, ds, ws are the deadline timer state,   *)
(* the delay timer state and the waits history as the running action has   *)
(* left them; lg is the log with the current attempt recorded.             *)

\* request: the arguments of the attempt's fetch call, Null when it made none
LogEntry(a, t0, t1, r, threw) ==
    [index |-> a, start |-> t0, end |-> t1, outcome |-> r, threw |-> threw,
     request |-> IF threw \/ StringifyThrows(opts) THEN Null ELSE FetchRequest(opts)]

\* the log with the Outcome of its last entry filled in
Settled(lg, r) ==
    [lg EXCEPT ![Len(lg)].end = now, ![Len(lg)].outcome = r]

\* fault variant of the return: every path returns lastResult
ReturnLastResult(r, a, ts, ds, ws, lg) ==
    /\ pc' = "done"
    /\ result' = lastResult'
    /\ attempt' = a
    /\ timeoutState' = ClearTimeout(ts)
    /\ delayState' = ds
    /\ waits' = ws
    /\ log' = lg
    /\ UNCHANGED delayDue

\* fault variant of the return: a Failure of the last allowed attempt is
\* wrapped into an error of its own
ReturnExhausted(r, a, ts, ds, ws, lg) ==
    /\ pc' = "done"
    /\ result' = IF /\ opts.retry # NoRetryPolicy
                    /\ a > 0
                    /\ a >= opts.retry.maxRetries
                    /\ r # Null
                    /\ ~r.ok
                 THEN [ok |-> FALSE,
                       error |-> [type |-> "unknown", message |-> "Retries exhausted", raw |-> r]]
                 ELSE r
    /\ attempt' = a
    /\ timeoutState' = ClearTimeout(ts)
    /\ delayState' = ds
    /\ waits' = ws
    /\ log' = lg
    /\ UNCHANGED delayDue

\* apiFetch returns r: the finally block runs, the promise resolves
Return(r, a, ts, ds, ws, lg) ==
    /\ pc' = "done"
    /\ result' = r
    /\ attempt' = a
    /\ timeoutState' = ClearTimeout(ts)
    /\ delayState' = ds
    /\ waits' = ws
    /\ log' = lg
    /\ UNCHANGED delayDue

\* index.ts:338-357: the Outcome r of attempt a is known
Continue(r, a, ts, ds, ws, lg) ==
    /\ lastResult' = IF NoRetry(opts.retry) THEN lastResult ELSE r
    /\ inflight' = inflight \ {a}
    /\ res' = Null
    /\ IF Decide(opts, r, a) = "delay"
       THEN /\ pc' = "delaying"
            /\ attempt' = a
            /\ delayState' = "armed"
            /\ delayDue' = DelayDue(now, opts.retry.retryDelay)
            /\ waits' = Append(ws, [after |-> a, start |-> now, end |-> Absent])
            /\ timeoutState' = ts
            /\ log' = lg
            /\ UNCHANGED result
       ELSE Return(r, a, ts, ds, ws, lg)

\* fetchCore from its entry to `await fetch`, index.ts:158-186, for attempt a;
\* sig is the aborted flag of the signal handed to fetch
FetchCoreStart(a, sig, ts, ds, ws) ==
    IF BuildUrlThrows(opts)
    THEN \* buildUrl is outside the try block: the TypeError leaves fetchCore and
         \* apiFetch, whose finally block still runs
         /\ pc' = "thrown"
         /\ attempt' = a
         /\ timeoutState' = ClearTimeout(ts)
         /\ delayState' = ds
         /\ waits' = ws
         /\ log' = Append(log, LogEntry(a, now, now, Null, TRUE))
         /\ UNCHANGED << lastResult, result, delayDue, inflight, res, fetches >>
    ELSE IF StringifyThrows(opts)
    THEN /\ Continue(NetworkFailure("TypeError"), a, ts, ds, ws,
                     Append(log, LogEntry(a, now, now, NetworkFailure("TypeError"), FALSE)))
         /\ UNCHANGED fetches
    ELSE IF sig
    THEN \* fetch with a fired signal rejects with AbortError at once
         /\ Continue(TimeoutFailure, a, ts, ds, ws,
                     Append(log, LogEntry(a, now, now, TimeoutFailure, FALSE)))
         /\ fetches' = fetches + 1
    ELSE /\ pc' = "fetching"
         /\ attempt' = a
         /\ inflight' = inflight \cup {a}
         /\ fetches' = fetches + 1
         /\ timeoutState' = ts
         /\ delayState' = ds
         /\ waits' = ws
         /\ log' = Append(log, LogEntry(a, now, Absent, Null, FALSE))
         /\ UNCHANGED << lastResult, result, delayDue, res >>

\* the retry loop's header: `attempt <= maxRetries`, else `return lastResult!`
LoopHead(a, sig, ts, ds, ws) ==
    IF a <= opts.retry.maxRetries
    THEN FetchCoreStart(a, sig, ts, ds, ws)
    ELSE /\ UNCHANGED << lastResult, inflight, res, fetches >>
         /\ Return(lastResult, a, ts, ds, ws, log)

----------------------------------------------------------------------------
(* Initial state and actions *)

\* the state of a call that has not been made yet
Fresh ==
    /\ pc = "idle"
    /\ attempt = 0
    /\ lastResult = Null
    /\ result = Null
    /\ now = 0
    /\ timeoutState = "none"
    /\ timeoutDue = 0
    /\ delayState = "none"
    /\ delayDue = 0
    /\ extAborted = FALSE
    /\ intAborted = FALSE
    /\ combAborted = FALSE
    /\ listeners = {}
    /\ inflight = {}
    /\ log = << >>
    /\ waits = << >>
    /\ res = Null
    /\ fetches = 0
    /\ responses = 0

\* a call of apiFetch itself with description o
DirectCall(o) ==
    [fn |-> "apiFetch", url |-> Undefined, params |-> NoParams, body |-> "absent",
     options |-> o]

Init ==
    /\ opts \in RequestDescriptions
    /\ invocation = DirectCall(opts)
    /\ Fresh
    /\ peer = Null

\* apiFetch from its entry to the first suspension point, index.ts:304-338
Call ==
    /\ pc = "idle"
    /\ LET merged == IF opts.hasSignal THEN CombineAbortSignals(extAborted)
                     ELSE [aborted |-> FALSE, listeners |-> {}]
           ts     == ArmTimeout(opts.timeoutMs)
       IN  /\ combAborted' = merged.aborted
           /\ listeners' = merged.listeners
           /\ timeoutDue' = IF ts = "armed" THEN now + opts.timeoutMs ELSE timeoutDue
           /\ IF NoRetry(opts.retry)
              THEN FetchCoreStart(0, Observed(opts, merged.aborted, intAborted),
                                  ts, delayState, waits)
              ELSE LoopHead(0, Observed(opts, merged.aborted, intAborted),
                            ts, delayState, waits)
    /\ UNCHANGED << opts, invocation, peer, now, extAborted, intAborted, responses >>

\* fetch resolves with a Response, index.ts:186-204
Respond(r) ==
    /\ pc = "fetching"
    /\ responses' = responses + 1
    /\ IF ~ResOk(r)
       THEN Continue(HttpFailure(r), attempt, timeoutState, delayState, waits,
                     Settled(log, HttpFailure(r)))
       ELSE IF ParseThrowsAtOnce(opts.responseType)
       THEN Continue(ParseFailure(opts.responseType, "Error"), attempt, timeoutState,
                     delayState, waits,
                     Settled(log, ParseFailure(opts.responseType, "Error")))
       ELSE /\ pc' = "parsing"
            /\ res' = r
            /\ UNCHANGED << attempt, lastResult, result, timeoutState, delayState,
                            delayDue, inflight, log, waits >>
    /\ UNCHANGED << opts, invocation, peer, now, timeoutDue, extAborted, intAborted, combAborted,
                    listeners, fetches >>

\* fetch rejects with a transport error, index.ts:225-244
NetworkFail ==
    /\ pc = "fetching"
    /\ responses' = responses + 1
    /\ Continue(NetworkFailure("TypeError"), attempt, timeoutState, delayState, waits,
                Settled(log, NetworkFailure("TypeError")))
    /\ UNCHANGED << opts, invocation, peer, now, timeoutDue, extAborted, intAborted, combAborted,
                    listeners, fetches >>

\* the body is decoded, index.ts:204, 218-224
DecodeOk ==
    /\ pc = "parsing"
    /\ Continue(Success(res, opts.responseType), attempt, timeoutState, delayState, waits,
                Settled(log, Success(res, opts.responseType)))
    /\ UNCHANGED << opts, invocation, peer, now, timeoutDue, extAborted, intAborted, combAborted,
                    listeners, fetches, responses >>

\* decoding the body fails, index.ts:205-215
DecodeFail ==
    /\ pc = "parsing"
    /\ Continue(ParseFailure(opts.responseType, "DecodeError"), attempt, timeoutState,
                delayState, waits,
                Settled(log, ParseFailure(opts.responseType, "DecodeError")))
    /\ UNCHANGED << opts, invocation, peer, now, timeoutDue, extAborted, intAborted, combAborted,
                    listeners, fetches, responses >>

\* fault variant of the abort handling: delay() listens to the signal and the
\* call returns the timeout Failure as soon as it fires
OnAbortCancelsDelay(ts) ==
    IF pc = "fetching"
    THEN Continue(TimeoutFailure, attempt, ts, delayState, waits,
                  Settled(log, TimeoutFailure))
    ELSE IF pc = "parsing"
    THEN Continue(ParseFailure(opts.responseType, "AbortError"), attempt, ts, delayState,
                  waits, Settled(log, ParseFailure(opts.responseType, "AbortError")))
    ELSE IF pc = "delaying"
    THEN /\ Return(TimeoutFailure, attempt, ts, "none", waits, log)
         /\ UNCHANGED << lastResult, inflight, res >>
    ELSE /\ timeoutState' = ts
         /\ UNCHANGED << pc, attempt, lastResult, result, delayState, delayDue,
                         inflight, log, waits, res >>

\* what the pending operation of the call does when the signal it observes
\* fires: a pending fetch rejects with AbortError (index.ts:227-235), a pending
\* body read rejects with AbortError inside the inner try (index.ts:205-215)
OnAbort(ts) ==
    IF pc = "fetching"
    THEN Continue(TimeoutFailure, attempt, ts, delayState, waits,
                  Settled(log, TimeoutFailure))
    ELSE IF pc = "parsing"
    THEN Continue(ParseFailure(opts.responseType, "AbortError"), attempt, ts, delayState,
                  waits, Settled(log, ParseFailure(opts.responseType, "AbortError")))
    ELSE /\ timeoutState' = ts
         /\ UNCHANGED << pc, attempt, lastResult, result, delayState, delayDue,
                         inflight, log, waits, res >>

\* the abort event of a source: the listener of the merge, if one is
\* registered on it, runs once and fires the merged controller (index.ts:378)
Merge(src) ==
    /\ combAborted' = (combAborted \/ src \in listeners)
    /\ listeners' = listeners \ {src}

\* the caller fires the external token
AbortExternal ==
    /\ opts.hasSignal
    /\ ~extAborted
    /\ extAborted' = TRUE
    /\ Merge("external")
    /\ IF Observed(opts, combAborted', intAborted) /\ ~Observed(opts, combAborted, intAborted)
       THEN OnAbort(timeoutState)
       ELSE UNCHANGED << pc, attempt, lastResult, result, timeoutState, delayState,
                         delayDue, inflight, log, waits, res >>
    /\ UNCHANGED << opts, invocation, peer, now, timeoutDue, intAborted, fetches, responses >>

\* the deadline expires: `() => internalController.abort()`, index.ts:319
TimerFire ==
    /\ timeoutState = "armed"
    /\ now >= timeoutDue
    /\ intAborted' = TRUE
    /\ Merge("internal")
    /\ IF Observed(opts, combAborted', intAborted') /\ ~Observed(opts, combAborted, intAborted)
       THEN OnAbort("fired")
       ELSE /\ timeoutState' = "fired"
            /\ UNCHANGED << pc, attempt, lastResult, result, delayState,
                            delayDue, inflight, log, waits, res >>
    /\ UNCHANGED << opts, invocation, peer, now, timeoutDue, extAborted, fetches, responses >>

\* fault variant of the loop: the `attempt++` of the for statement is missing
DelayFireNoIncrement ==
    /\ pc = "delaying"
    /\ delayState = "armed"
    /\ now >= delayDue
    /\ LoopHead(attempt, Observed(opts, combAborted, intAborted), timeoutState, "none",
                [waits EXCEPT ![Len(waits)].end = now])
    /\ UNCHANGED << opts, invocation, peer, now, timeoutDue, extAborted, intAborted,
                    combAborted, listeners, responses >>

\* the timer of delay() expires and the loop goes on, index.ts:357, 337-338
DelayFire ==
    /\ pc = "delaying"
    /\ delayState = "armed"
    /\ now >= delayDue
    /\ LoopHead(attempt + 1, Observed(opts, combAborted, intAborted), timeoutState, "none",
                [waits EXCEPT ![Len(waits)].end = now])
    /\ UNCHANGED << opts, invocation, peer, now, timeoutDue, extAborted, intAborted, combAborted,
                    listeners, responses >>

\* time passes, up to the next timer that is due
Tick ==
    /\ \/ timeoutState = "armed"
       \/ delayState = "armed"
       \/ peer # Null /\ (peer.timeoutState = "armed" \/ peer.delayState = "armed")
    /\ timeoutState = "armed" => now < timeoutDue
    /\ delayState = "armed" => now < delayDue
    /\ (peer # Null /\ peer.timeoutState = "armed") => now < peer.timeoutDue
    /\ (peer # Null /\ peer.delayState = "armed") => now < peer.delayDue
    /\ now' = now + 1
    /\ UNCHANGED << opts, invocation, peer, pc, attempt, lastResult, result, timeoutState, timeoutDue,
                    delayState, delayDue, extAborted, intAborted, combAborted, listeners,
                    inflight, log, waits, res, fetches, responses >>

Next ==
    \/ Call
    \/ \E r \in Responses : Respond(r)
    \/ NetworkFail
    \/ DecodeOk
    \/ DecodeFail
    \/ AbortExternal
    \/ TimerFire
    \/ DelayFire
    \/ Tick

Spec == Init /\ [][Next]_vars

----------------------------------------------------------------------------
(* Two calls of apiFetch that run interleaved at their suspension points.   *)
(* Everything a call works on lives in the locals of its own invocation     *)
(* (index.ts:307-335): each call has its own copy of the variables, the     *)
(* clock of the timer queue is the only thing they share.  The actions act  *)
(* on the call in focus; Switch moves the focus to the other call.          *)

\* the variables of the call in focus
Snapshot ==
    [ invocation |-> invocation, opts |-> opts, pc |-> pc, attempt |-> attempt, lastResult |-> lastResult,
      result |-> result, timeoutState |-> timeoutState, timeoutDue |-> timeoutDue,
      delayState |-> delayState, delayDue |-> delayDue, extAborted |-> extAborted,
      intAborted |-> intAborted, combAborted |-> combAborted, listeners |-> listeners,
      inflight |-> inflight, log |-> log, waits |-> waits, res |-> res,
      fetches |-> fetches, responses |-> responses ]

\* the variables of a call with description o that has not been made yet
FreshCall(o) ==
    [ invocation |-> DirectCall(o), opts |-> o, pc |-> "idle", attempt |-> 0, lastResult |-> Null,
      result |-> Null, timeoutState |-> "none", timeoutDue |-> 0,
      delayState |-> "none", delayDue |-> 0, extAborted |-> FALSE,
      intAborted |-> FALSE, combAborted |-> FALSE, listeners |-> {},
      inflight |-> {}, log |-> << >>, waits |-> << >>, res |-> Null,
      fetches |-> 0, responses |-> 0 ]

\* the event loop runs a task of the other call next
Switch ==
    /\ peer # Null
    /\ peer' = Snapshot
    /\ invocation' = peer.invocation
    /\ opts' = peer.opts
    /\ pc' = peer.pc
    /\ attempt' = peer.attempt
    /\ lastResult' = peer.lastResult
    /\ result' = peer.result
    /\ timeoutState' = peer.timeoutState
    /\ timeoutDue' = peer.timeoutDue
    /\ delayState' = peer.delayState
    /\ delayDue' = peer.delayDue
    /\ extAborted' = peer.extAborted
    /\ intAborted' = peer.intAborted
    /\ combAborted' = peer.combAborted
    /\ listeners' = peer.listeners
    /\ inflight' = peer.inflight
    /\ log' = peer.log
    /\ waits' = peer.waits
    /\ res' = peer.res
    /\ fetches' = peer.fetches
    /\ responses' = peer.responses
    /\ UNCHANGED now

\* the descriptions of the two calls: with and without deadline, own token
\* or none, a policy with its own retryOn list or with the default one
PairRetryPolicies ==
    { [maxRetries |-> 1, retryDelay |-> 1, hasRetryOn |-> TRUE, retryOn |-> {500}],
      [maxRetries |-> 1, retryDelay |-> 1, hasRetryOn |-> FALSE, retryOn |-> {}] }

PairDescriptions ==
    [ url               : {"https://x/y"},
      params            : {NoParams},
      method            : {Undefined},
      headers           : {NoHeaders},
      body              : {"absent"},
      skipBodyStringify : {FALSE},
      responseType      : {"json"},
      timeoutMs         : {Absent, 1},
      retry             : PairRetryPolicies,
      hasSignal         : BOOLEAN ]

InitPair ==
    /\ opts \in PairDescriptions
    /\ invocation = DirectCall(opts)
    /\ Fresh
    /\ peer \in { FreshCall(o) : o \in PairDescriptions }

NextPair == Next \/ Switch

SpecPair == InitPair /\ [][NextPair]_vars

\* the call of the README's "Automatic Retry on Failure" example: its url and
\* its retry policy, with every deadline, token and decode mode
ReadmeMaxRetries == 3

ReadmeRetry ==
    [ maxRetries |-> ReadmeMaxRetries, retryDelay |-> MaxDelay, hasRetryOn |-> TRUE,
      retryOn |-> {408, 429, 500, 502, 503, 504} ]

ReadmeDescriptions ==
    [ url               : {"/api/unreliable-endpoint"},
      params            : {NoParams},
      method            : {Undefined},
      headers           : {NoHeaders},
      body              : {"absent"},
      skipBodyStringify : {FALSE},
      responseType      : ResponseTypes,
      timeoutMs         : {Absent} \cup (0 .. MaxTimeout),
      retry             : {ReadmeRetry},
      hasSignal         : BOOLEAN ]

InitReadme ==
    /\ opts \in ReadmeDescriptions
    /\ invocation = DirectCall(opts)
    /\ Fresh
    /\ peer = Null

SpecReadme == InitReadme /\ [][Next]_vars

----------------------------------------------------------------------------
(* The request on the wire.  The caller goes through apiFetch or through    *)
(* one of the wrappers get, post, put, del (index.ts:390-446) with concrete *)
(* addresses, params mappings and headers; the wrapper builds the           *)
(* description that apiFetch works on.                                      *)

\* the method that a wrapper sets
WrapperMethod(fn) ==
    CASE fn = "get"  -> "GET"
      [] fn = "post" -> "POST"
      [] fn = "put"  -> "PUT"
      [] fn = "del"  -> "DELETE"
      [] OTHER       -> Undefined

\* fault variant of the wrappers: the options are spread after url and method
ForwardOptionsLast(inv) ==
    IF inv.fn = "apiFetch" THEN inv.options
    ELSE [inv.options EXCEPT
            !.url    = IF @ # Undefined THEN @ ELSE inv.url,
            !.method = IF @ # Undefined THEN @ ELSE WrapperMethod(inv.fn),
            !.params = IF inv.fn = "get" /\ inv.params.given THEN inv.params ELSE @,
            !.body   = IF inv.fn \in {"post", "put"} /\ inv.body # "absent"
                       THEN inv.body ELSE @]

\* the description that the invoked function passes to apiFetch:
\* `{ ...options, url, method, ...(params && { params }) }` for get,
\* `{ ...options, url, method, ...(body !== undefined && { body }) }` for
\* post and put, `{ ...options, url, method }` for del
Forward(inv) ==
    IF inv.fn = "apiFetch" THEN inv.options
    ELSE [inv.options EXCEPT
            !.url    = inv.url,
            !.method = WrapperMethod(inv.fn),
            !.params = IF inv.fn = "get" /\ inv.params.given THEN inv.params ELSE @,
            !.body   = IF inv.fn \in {"post", "put"} /\ inv.body # "absent"
                       THEN inv.body ELSE @]

WireFunctions == {"apiFetch", "get", "post", "put", "del"}

\* absolute addresses (bare, without path, with a query, with a fragment)
\* and the relative address of the README
WireUrls == {"https://x/y", "https://x", "https://x/y?q=0", "https://x/y#top", "/api/users"}

\* { limit: 10, page: 2, active: true } of the README
ReadmeParams ==
    [given |-> TRUE,
     entries |-> << [key |-> "limit", value |-> [num |-> 10]],
                    [key |-> "page", value |-> [num |-> 2]],
                    [key |-> "active", value |-> [bool |-> TRUE]] >>]

\* undefined, {}, the README's mapping, { a: 1, b: "two" }, { q: "two words" }
\* and { b: "two", 1: true }, each with its entries as written
WireParams ==
    { NoParams,
      [given |-> TRUE, entries |-> << >>],
      ReadmeParams,
      [given |-> TRUE, entries |-> << [key |-> "a", value |-> [num |-> 1]],
                                      [key |-> "b", value |-> [str |-> "two"]] >>],
      [given |-> TRUE, entries |-> << [key |-> "q", value |-> [str |-> "two words"]] >>],
      [given |-> TRUE, entries |-> << [key |-> "b", value |-> [str |-> "two"]],
                                      [key |-> "1", value |-> [bool |-> TRUE]] >>] }

\* undefined and the three forms of HeadersInit: a plain object (with a new
\* key, with the key of the default), a Headers instance, an array of pairs
WireHeaders ==
    { NoHeaders,
      [form |-> "record", entries |-> << [name |-> "Authorization", value |-> "t"] >>],
      [form |-> "record", entries |-> << [name |-> "Content-Type", value |-> "text/plain"] >>],
      [form |-> "Headers", entries |-> << [name |-> "Authorization", value |-> "t"] >>],
      [form |-> "pairs", entries |-> << [name |-> "Authorization", value |-> "t"] >>] }

WireBodies ==
    { [body |-> "absent", skipBodyStringify |-> FALSE],
      [body |-> "plain", skipBodyStringify |-> FALSE],
      [body |-> "plain", skipBodyStringify |-> TRUE] }

\* a bare call, and one with deadline, retry policy and external token
WireControls ==
    { [timeoutMs |-> Absent, retry |-> NoRetryPolicy, hasSignal |-> FALSE],
      [timeoutMs |-> 1,
       retry |-> [maxRetries |-> MaxRetries, retryDelay |-> MaxDelay, hasRetryOn |-> FALSE,
                  retryOn |-> {}],
       hasSignal |-> TRUE] }

\* the url and method fields of an options object handed to a wrapper:
\* left out, or present (which the option types forbid but an untyped
\* caller can do)
WireOverrides ==
    { [url |-> Undefined, method |-> Undefined],
      [url |-> "https://other/z", method |-> "PATCH"] }

MakeInvocation(fn, u, p, h, b, rt, c, ov) ==
    LET base == [ url |-> ov.url, method |-> ov.method, params |-> p, headers |-> h,
                  body |-> b.body, skipBodyStringify |-> b.skipBodyStringify,
                  responseType |-> rt, timeoutMs |-> c.timeoutMs, retry |-> c.retry,
                  hasSignal |-> c.hasSignal ]
    IN  CASE fn = "apiFetch" ->
                [fn |-> fn, url |-> Undefined, params |-> NoParams, body |-> "absent",
                 options |-> [base EXCEPT !.url = u]]
          [] fn = "get" ->
                [fn |-> fn, url |-> u, params |-> p, body |-> "absent",
                 options |-> [base EXCEPT !.params = NoParams]]
          [] fn \in {"post", "put"} ->
                [fn |-> fn, url |-> u, params |-> NoParams, body |-> b.body,
                 options |-> [base EXCEPT !.body = "absent"]]
          [] OTHER ->
                [fn |-> fn, url |-> u, params |-> NoParams, body |-> "absent",
                 options |-> base]

WireInvocations ==
    { MakeInvocation(fn, u, p, h, b, rt, c, ov) :
        fn \in WireFunctions, u \in WireUrls, p \in WireParams, h \in WireHeaders,
        b \in WireBodies, rt \in {"json", "text"}, c \in WireControls,
        ov \in WireOverrides }

InitWire ==
    /\ invocation \in WireInvocations
    /\ opts = Forward(invocation)
    /\ Fresh
    /\ peer = Null

SpecWire == InitWire /\ [][Next]_vars

\* the event loop runs every timer that is due and time does not stop
LiveSpec == Spec /\ WF_vars(Tick) /\ WF_vars(TimerFire) /\ WF_vars(DelayFire)

\* the calls with a retry policy that allows at least one attempt; of the
\* supported decode modes, which differ in the text of the parse message
\* only, one is kept
InitTerm ==
    /\ Init
    /\ opts.retry # NoRetryPolicy
    /\ opts.retry.maxRetries >= 0
    /\ opts.responseType \in {"json", UnsupportedType}

\* the event loop runs every timer that is due, time does not stop, and the
\* transport settles every fetch and every body read that the call waits on
TermSpec ==
    /\ InitTerm
    /\ [][Next]_vars
    /\ WF_vars(Tick) /\ WF_vars(TimerFire) /\ WF_vars(DelayFire)
    /\ WF_vars((\E r \in Responses : Respond(r)) \/ NetworkFail)
    /\ WF_vars(DecodeOk \/ DecodeFail)

TypeOK ==
    /\ opts \in RequestDescriptions
    /\ pc \in {"idle", "fetching", "parsing", "delaying", "done", "thrown"}
    /\ timeoutState \in {"none", "armed", "fired", "cleared"}
    /\ delayState \in {"none", "armed"}
    /\ listeners \subseteq {"external", "internal"}

----------------------------------------------------------------------------
(* Vocabulary of the properties *)

Completed == pc \in {"done", "thrown"}

HasPolicy == opts.retry # NoRetryPolicy

\* the Outcome o is known and is an http Failure
IsHttp(o) == o # Null /\ ~o.ok /\ o.error.type = "http"

\* the Outcome o is an http Failure whose status is in the policy's retry set
IsRetryable(o) == IsHttp(o) /\ o.error.status \in RetryOnOf(opts.retry)

\* every attempt made so far was answered with a retryable status
AllRetryable == \A i \in 1 .. Len(log) : IsRetryable(log[i].outcome)

----------------------------------------------------------------------------
(* C1: every call of apiFetch completes by returning an Outcome and never  *)
(* by raising an exception to the caller, whatever the request description *)
(* (stated as: the call never ends in the thrown state).                   *)
C1_NeverThrows == pc # "thrown"

C3_NoRetryOnUnlisted ==
    HasPolicy =>
        \A i \in 1 .. Len(log) :
            (IsHttp(log[i].outcome) /\ ~IsRetryable(log[i].outcome))
                => /\ i = Len(log)
                   /\ pc = "done"
                   /\ result = log[i].outcome
                   /\ delayState = "none"
                   /\ Len(waits) = i - 1
                   /\ fetches = i

C3_Witness ==
    /\ HasPolicy /\ opts.retry.maxRetries >= 1
    /\ opts.retry.hasRetryOn /\ opts.retry.retryOn = {500}
    /\ Len(log) = 1 /\ IsHttp(log[1].outcome) /\ log[1].outcome.error.status = 503
    /\ pc = "done"

C5_SuccessReturnsAtOnce ==
    \A i \in 1 .. Len(log) :
        LET o == log[i].outcome
        IN  (o # Null /\ o.ok)
                => /\ i = Len(log)
                   /\ pc = "done"
                   /\ result = o
                   /\ delayState = "none"
                   /\ Len(waits) = i - 1

C5_Witness ==
    /\ pc = "done" /\ HasPolicy /\ opts.retry.maxRetries = MaxRetries
    /\ Len(log) = 2 /\ result.ok

(* C6: without a retry policy, or with maxRetries = 0, the call makes      *)
(* exactly one attempt, waits no delay and returns the Outcome of that     *)
(* attempt unchanged, a retryable http status included.                    *)
C6_SingleAttemptWithoutPolicy ==
    (opts.retry = NoRetryPolicy \/ opts.retry.maxRetries = 0)
        => /\ Len(log) <= 1
           /\ fetches <= 1
           /\ waits = << >>
           /\ delayState = "none"
           /\ Completed => Len(log) = 1
           /\ pc = "done" => result = log[1].outcome /\ result # Null

C6_Witness ==
    /\ pc = "done" /\ HasPolicy /\ opts.retry.maxRetries = 0 /\ ~opts.retry.hasRetryOn
    /\ IsHttp(result) /\ result.error.status = 503

(* C7: with a positive time budget and an endpoint that never responds,   *)
(* the pending attempt is eventually cancelled and the call returns the    *)
(* network Failure "Request Timeout": from a pending first attempt, either *)
(* the transport answers after all or the call ends that way, with one of  *)
(* the cancellation sources fired.                                         *)
C7_TimeoutEventually ==
    (pc = "fetching" /\ opts.timeoutMs > 0)
        ~> \/ responses > 0
           \/ /\ pc = "done"
              /\ result = TimeoutFailure
              /\ intAborted \/ extAborted

C7_Witness ==
    /\ pc = "done" /\ opts.timeoutMs > 0 /\ responses = 0 /\ fetches = 1
    /\ timeoutState = "fired" /\ intAborted /\ ~extAborted
    /\ result = TimeoutFailure

(* C8: once the call has completed, by a return or by an exception, its    *)
(* deadline timer is not pending and no delay timer is pending, and the    *)
(* internal cancellation source is never fired afterwards.                 *)
C8_TimersCleanedUp ==
    /\ [](Completed => timeoutState # "armed" /\ delayState # "armed")
    /\ [][Completed => intAborted' = intAborted]_vars

C8_Witness ==
    /\ pc = "done" /\ timeoutState = "cleared" /\ Len(waits) >= 1 /\ ~intAborted

(* C9: with an external token, once the call is made the merged signal is  *)
(* fired exactly when the external token or the internal source has fired  *)
(* (so it fires in the step in which the first of them fires and never     *)
(* before), and once fired it stays fired.                                 *)
C9_MergedSignal ==
    /\ []((opts.hasSignal /\ pc # "idle") => (combAborted <=> (extAborted \/ intAborted)))
    /\ [][combAborted => combAborted']_vars

C9_Witness ==
    /\ opts.hasSignal /\ pc = "delaying" /\ combAborted /\ intAborted /\ ~extAborted

(* C10: at most one attempt is in flight at any time, and attempt k+1      *)
(* starts only when the Outcome of attempt k is known and the whole        *)
(* inter-attempt delay has passed since then.                              *)
C10_Sequential ==
    /\ Cardinality(inflight) <= 1
    /\ \A i \in 2 .. Len(log) :
            /\ log[i - 1].outcome # Null
            /\ log[i - 1].end # Absent
            /\ log[i].index = log[i - 1].index + 1
            /\ log[i].start >= log[i - 1].end + opts.retry.retryDelay
    /\ \A i \in 1 .. Len(log) : i < Len(log) => log[i].index \notin inflight

C10_Witness ==
    /\ pc = "fetching" /\ Len(log) = MaxRetries + 1 /\ opts.retry.retryDelay = MaxDelay
    /\ inflight = {MaxRetries}

(* C11: an attempt whose response has a status outside the success range *)
(* ends, in the step in which the response arrives, in an http Failure     *)
(* that carries exactly the status and the statusText of the response; the *)
(* body is not decoded, and the Outcome does not depend on the retry       *)
(* policy.                                                                 *)
C11_HttpFailureMatchesResponse ==
    [][\A r \in Responses :
          (Respond(r) /\ ~ResOk(r))
              => LET o == log'[Len(log')].outcome
                 IN  /\ Len(log') = Len(log)
                     /\ o # Null
                     /\ ~o.ok
                     /\ DOMAIN o = {"ok", "error"}
                     /\ o.error.type = "http"
                     /\ o.error.status = r.status
                     /\ o.error.statusText = r.statusText
                     /\ pc' # "parsing"
                     /\ res' = Null]_vars

C11_Witness ==
    /\ pc = "done" /\ IsHttp(result) /\ result.error.status = 500
    /\ result.error.statusText = "" /\ result.error.message = "HTTP error 500"

(* C12: every Failure that apiFetch returns is well-kinded: a network     *)
(* Failure carries neither status nor statusText, an http Failure carries  *)
(* both, and a parse Failure is returned only from an attempt whose        *)
(* response had a success status.                                          *)
C12_ErrorKinds ==
    /\ []((pc = "done" /\ result # Null /\ ~result.ok)
            => LET e == result.error
               IN  /\ e.type = "network"
                        => "status" \notin DOMAIN e /\ "statusText" \notin DOMAIN e
                   /\ e.type = "http"
                        => "status" \in DOMAIN e /\ "statusText" \in DOMAIN e)
    /\ [][(pc' = "done" /\ pc # "done" /\ result' # Null /\ ~result'.ok
              /\ result'.error.type = "parse")
            => \/ pc = "parsing" /\ ResOk(res)
               \/ pc = "fetching" /\ \E r \in Responses : ResOk(r) /\ Respond(r)]_vars

C12_Witness ==
    /\ pc = "done" /\ result # Null /\ ~result.ok /\ result.error.type = "network"
    /\ responses = 1 /\ result.error.message = errorMap.NETWORK_ERROR

(* C13: caller cancellation and deadline expiry look alike in the Outcome: *)
(* whenever either source fires the signal that a pending attempt          *)
(* observes, the attempt ends in the network Failure "Request Timeout"     *)
(* without cause value, whichever source it was.                           *)
C13_CancellationLooksAlike ==
    [][(/\ pc \in {"fetching", "parsing"}
        /\ extAborted' # extAborted \/ intAborted' # intAborted
        /\ ~Observed(opts, combAborted, intAborted)
        /\ Observed(opts, combAborted', intAborted'))
          => log'[Len(log')].outcome =
                [ok |-> FALSE, error |-> [type |-> "network", message |-> "Request Timeout"]]]_vars

(* C14: the value a call returns after at least one attempt is exactly    *)
(* the Outcome of the last attempt it executed: no other error kind, no    *)
(* wrapping on exhaustion, never the Failure of an earlier attempt.        *)
C14_ReturnsLastOutcome ==
    (pc = "done" /\ Len(log) >= 1)
        => /\ result = log[Len(log)].outcome
           /\ result # Null

C14_Witness ==
    /\ pc = "done" /\ HasPolicy /\ Len(log) = opts.retry.maxRetries + 1 /\ Len(log) >= 2
    /\ AllRetryable /\ log[1].outcome # log[Len(log)].outcome

\* statuses on which the retry test is probed: the defaults, their
\* neighbours and the statuses of the endpoint
ProbeStatuses ==
    {400, 404, 407, 408, 409, 428, 429, 430, 499, 500, 501, 502, 503, 504, 505}

\* the statuses that qualify for a retry under the policy, as documented
QualifyingStatuses(retry) ==
    IF retry.hasRetryOn THEN retry.retryOn ELSE {408, 429, 500, 502, 503, 504}

(* C16: the statuses that qualify for a retry are the supplied retryOn     *)
(* list when there is one (an empty list: none) and otherwise exactly      *)
(* 408, 429, 500, 502, 503, 504: the retry test says so for every probed   *)
(* status, and a non-success response leads to a delay exactly for these   *)
(* statuses while the budget lasts (the retry test is a function of the   *)
(* policy: it is probed on every policy, before the call is made).         *)
C16_RetrySet ==
    /\ []((pc = "idle" /\ HasPolicy) =>
            \A s \in ProbeStatuses : \A a \in 0 .. MaxRetries :
                ShouldRetry(HttpFailure([status |-> s, statusText |-> ""]), a, opts.retry)
                    <=> (a < opts.retry.maxRetries /\ s \in QualifyingStatuses(opts.retry)))
    /\ [][\A r \in Responses :
            (Respond(r) /\ ~ResOk(r) /\ HasPolicy /\ attempt < opts.retry.maxRetries)
                => ((pc' = "delaying") <=> (r.status \in QualifyingStatuses(opts.retry)))]_vars

C16_Witness ==
    /\ pc = "delaying" /\ ~opts.retry.hasRetryOn /\ Len(log) = 1
    /\ IsHttp(log[1].outcome) /\ log[1].outcome.error.status = 503

(* C17: with a non-empty parameter mapping and a base address that is not *)
(* a valid URL, the call results in a Failure of kind parse and no network *)
(* call is issued.                                                         *)
C17_BadUrlIsParseFailure ==
    (Completed /\ ~NoQuery(opts.params) /\ ~ParseUrl(opts.url).ok)
        => /\ pc = "done"
           /\ result # Null
           /\ ~result.ok
           /\ result.error.type = "parse"
           /\ fetches = 0

(* C18: with a decode mode outside the supported ones and a response of    *)
(* success status, the call's Outcome is a Failure of kind unknown, not    *)
(* parse.                                                                  *)
C18_UnsupportedModeIsUnknown ==
    [][\A r \in Responses :
          (Respond(r) /\ ResOk(r) /\ opts.responseType \notin ResponseTypes)
              => /\ pc' = "done"
                 /\ ~result'.ok
                 /\ result'.error.type = "unknown"]_vars

(* C19: with a retry policy, an attempt that failed with a network error   *)
(* is retried while the budget lasts, like one that failed with a listed   *)
(* status.                                                                 *)
C19_RetriesNetworkErrors ==
    [][(NetworkFail /\ HasPolicy /\ attempt < opts.retry.maxRetries)
          => pc' = "delaying"]_vars

(* C20: with retry.maxRetries = 3 the request is tried at most 3 times in *)
(* total: no execution of such a call issues more than 3 network attempts. *)
C20_AtMostThreeTries == opts.retry.maxRetries = 3 => fetches <= 3

\* the Outcome o came from a cancellation
IsCancelled(o) ==
    /\ o # Null
    /\ ~o.ok
    /\ \/ o.error.message = "Request Timeout"
       \/ o.error.type = "parse" /\ o.error.raw = "AbortError"

\* call c was cancelled by its own sources only, and its own deadline fired
\* only when due
OwnCancellationOnly(c) ==
    /\ \A i \in 1 .. Len(c.log) :
            IsCancelled(c.log[i].outcome) => (c.intAborted \/ c.extAborted)
    /\ c.intAborted => (c.opts.timeoutMs > 0 /\ c.timeoutState = "fired" /\ now >= c.timeoutDue)
    /\ c.extAborted => c.opts.hasSignal

\* the retries of call c follow from its own policy and its own responses:
\* attempt i was followed by a retry exactly if it ended in an http Failure
\* of a status of c's own retry set with budget left
OwnPolicyOnly(c) ==
    \A i \in 1 .. Len(c.log) :
        LET o == c.log[i].outcome
        IN  o # Null =>
                ((Len(c.waits) >= i)
                    <=> /\ c.opts.retry # NoRetryPolicy
                        /\ ~o.ok
                        /\ o.error.type = "http"
                        /\ o.error.status \in QualifyingStatuses(c.opts.retry)
                        /\ c.log[i].index < c.opts.retry.maxRetries)

(* C15: two calls that run interleaved and share no token are isolated:    *)
(* every step leaves the variables of the call it does not belong to as    *)
(* they are, a call is cancelled by its own deadline or token only, and    *)
(* the retries of each call follow from its own policy and responses, not  *)
(* from the retryOn list of the other call.                                *)
C15_CallsIsolated ==
    /\ [](peer # Null =>
            /\ OwnCancellationOnly(Snapshot) /\ OwnCancellationOnly(peer)
            /\ OwnPolicyOnly(Snapshot) /\ OwnPolicyOnly(peer))
    /\ [][peer' = peer \/ (peer' = Snapshot /\ Snapshot' = peer)]_vars

C15_Witness ==
    /\ peer # Null
    /\ pc = "done" /\ timeoutState = "fired" /\ result = TimeoutFailure
    /\ peer.opts.timeoutMs = Absent /\ ~peer.opts.retry.hasRetryOn
    /\ opts.retry.hasRetryOn
    /\ peer.pc = "done" /\ Len(peer.log) = 2
    /\ peer.log[1].outcome # Null /\ peer.log[1].outcome.error.status = 503
    /\ peer.log[1].start < timeoutDue /\ peer.log[2].end >= timeoutDue
    /\ peer.result.ok


(* C21: get(url, params) and apiFetch({url, params}) with the relative     *)
(* address "/api/users" and the mapping { limit: 10, page: 2, active: true } *)
(* issue a request to "/api/users?limit=10&page=2&active=true" and return  *)
(* an Outcome for it.                                                      *)
C21_RelativeUrlWithParams ==
    (/\ Completed
     /\ invocation.fn \in {"get", "apiFetch"}
     /\ opts.url = "/api/users"
     /\ opts.params = ReadmeParams)
        => /\ pc = "done"
           /\ result # Null
           /\ log[1].request # Null
           /\ log[1].request.url = "/api/users?limit=10&page=2&active=true"

\* the pairs of a mapping in the order in which its entries were written
InsertionOrderPairs(m) ==
    [i \in 1 .. Len(m) |-> [key |-> m[i].key, value |-> StringOf(m[i].value)]]

(* C22: the address of every request is the base unchanged when the params *)
(* mapping is absent or empty; with a non-empty mapping on a valid base its *)
(* query holds the pairs already in the base and then one key=value pair   *)
(* per entry of the mapping, in insertion order, each value in its string  *)
(* form: "https://x/y" with { a: 1, b: "two" } gives "https://x/y?a=1&b=two". *)
C22_BuildUrlResult ==
    \A i \in 1 .. Len(log) :
        log[i].request # Null =>
            /\ NoQuery(opts.params) => log[i].request.url = opts.url
            /\ ~NoQuery(opts.params) =>
                  log[i].request.url =
                      SerializeUrl(ParseUrl(opts.url),
                                   ParseUrl(opts.url).query
                                       \o InsertionOrderPairs(opts.params.entries))
            /\ (/\ opts.url = "https://x/y"
                /\ opts.params.entries = << [key |-> "a", value |-> [num |-> 1]],
                                            [key |-> "b", value |-> [str |-> "two"]] >>)
                  => log[i].request.url = "https://x/y?a=1&b=two"

\* o is a well-formed tagged Outcome
WellFormedOutcome(o) ==
    /\ "ok" \in DOMAIN o
    /\ o.ok => DOMAIN o = {"ok", "data", "status", "statusText", "headers"}
    /\ ~o.ok => /\ DOMAIN o = {"ok", "error"}
                /\ o.error.type \in {"network", "http", "parse", "unknown"}

(* C23: every value that apiFetch resolves to is a well-formed tagged     *)
(* Outcome: ok = true with data, status, statusText and headers and no     *)
(* error, or ok = false with an error of kind network, http, parse or      *)
(* unknown and no data; never both, never neither.                         *)
C23_WellFormedOutcome == pc = "done" => WellFormedOutcome(result)

(* C24: a wrapper forwards to apiFetch with its own method and the url it  *)
(* was given, whatever url or method its options carry, and with headers,  *)
(* timeoutMs, retry, signal, responseType and skipBodyStringify of the     *)
(* options unchanged; every request of the call goes out with that method  *)
(* and to that url (when there are no params to append).                   *)
C24_WrappersForward ==
    invocation.fn # "apiFetch" =>
        /\ opts.method = (CASE invocation.fn = "get"  -> "GET"
                            [] invocation.fn = "post" -> "POST"
                            [] invocation.fn = "put"  -> "PUT"
                            [] invocation.fn = "del"  -> "DELETE")
        /\ opts.url = invocation.url
        /\ \A f \in {"headers", "timeoutMs", "retry", "hasSignal", "responseType",
                     "skipBodyStringify"} : opts[f] = invocation.options[f]
        /\ \A i \in 1 .. Len(log) :
                log[i].request # Null =>
                    /\ log[i].request.method = opts.method
                    /\ NoQuery(opts.params) => log[i].request.url = invocation.url

C24_Witness ==
    /\ invocation.fn = "put" /\ invocation.options.method = "PATCH"
    /\ invocation.options.url = "https://other/z" /\ invocation.url = "https://x/y"
    /\ invocation.options.headers.form = "record" /\ invocation.options.timeoutMs = 1
    /\ pc = "done" /\ result.ok /\ Len(log) = 2
    /\ log[2].request.method = "PUT" /\ log[2].request.url = "https://x/y"


(* C25: the merge stops listening once it has fired: when the merged       *)
(* signal is fired no abort listener of the merge remains on either        *)
(* source, and once the call has returned none remains on the caller's     *)
(* external token.                                                         *)
C25_NoListenerLeft ==
    /\ combAborted => listeners = {}
    /\ Completed => "external" \notin listeners

(* C26: every wait between two attempts lasts exactly retryDelay, whatever *)
(* the attempt it follows, and a call that has completed has waited one    *)
(* delay less than it made attempts.                                       *)
C26_ConstantDelay ==
    /\ \A i \in 1 .. Len(waits) :
            waits[i].end # Absent => waits[i].end - waits[i].start = opts.retry.retryDelay
    /\ Completed => Len(waits) = Len(log) - 1

\* the entries of a sequence, as a set
Range(q) == {q[i] : i \in 1 .. Len(q)}

(* C27: the header set of every request is, for decode mode json, the      *)
(* default Content-Type: application/json overlaid with the caller's       *)
(* headers (a caller's Content-Type replaces the default), and for every   *)
(* other decode mode exactly the caller's headers.                         *)
C27_OutgoingHeaders ==
    \A i \in 1 .. Len(log) :
        log[i].request # Null =>
            LET sent   == log[i].request.headers
                caller == opts.headers.entries
            IN  IF opts.responseType = "json"
                THEN /\ Range(caller) \subseteq Range(sent)
                     /\ Range(sent) \ Range(caller) =
                            IF \E e \in Range(caller) : e.name = "Content-Type" THEN {}
                            ELSE {[name |-> "Content-Type", value |-> "application/json"]}
                     /\ Len(sent) = Cardinality(Range(sent))
                ELSE sent = caller

(* C28: all attempts of a call issue the identical request (address,       *)
(* method, header set, body, cancellation signal), and no step of the call *)
(* changes the request description the caller passed.                      *)
C28_SameRequestEveryAttempt ==
    /\ [](\A i, j \in 1 .. Len(log) :
            (log[i].request # Null /\ log[j].request # Null)
                => log[i].request = log[j].request)
    /\ [][opts' = opts /\ invocation' = invocation]_vars

C28_Witness ==
    /\ pc = "done" /\ Len(log) = MaxRetries + 1
    /\ \A i \in 1 .. Len(log) : log[i].request # Null
    /\ opts.params = ReadmeParams /\ opts.headers.form = "record" /\ opts.body = "plain"
    /\ log[Len(log)].request.url = "https://x/y?q=0&limit=10&page=2&active=true"

(* C29: once the call is made, a deadline has been armed whenever the      *)
(* description carries a time budget, 0 included, and it is armed once per *)
(* call: the due time set at the call never moves.                         *)
C29_DeadlineForEveryBudget ==
    /\ []((pc # "idle" /\ opts.timeoutMs # Absent) => timeoutState # "none")
    /\ [][pc # "idle" => timeoutDue' = timeoutDue]_vars

(* C30: whenever the signal that an attempt observes fires while the       *)
(* attempt is pending, be it waiting for the response or decoding the body *)
(* of a success response, the attempt ends in Failure network "Request     *)
(* Timeout" and never in a parse Failure.                                  *)
C30_CancellationIsNetworkFailure ==
    [][\A at \in {"fetching", "parsing"} :
          (/\ pc = at
           /\ ~Observed(opts, combAborted, intAborted)
           /\ Observed(opts, combAborted', intAborted'))
              => LET o == log'[Len(log')].outcome
                 IN  /\ o # Null
                     /\ ~o.ok
                     /\ o.error.type # "parse"
                     /\ o.error.type = "network"
                     /\ o.error.message = errorMap.TIMEOUT]_vars


\* this step starts an attempt, and the signal the attempt is given has
\* fired before: the external token before the call, or the observed signal
\* before the end of a delay
StartsAttemptOnFiredSignal ==
    /\ Len(log') = Len(log) + 1
    /\ IF pc = "idle" THEN opts.hasSignal /\ extAborted
       ELSE Observed(opts, combAborted, intAborted)

(* C31: once the signal the attempts observe has fired, the call neither  *)
(* succeeds nor retries: no Success is recorded and no delay is begun      *)
(* afterwards, and an attempt started after the signal fired ends at once  *)
(* in Failure network "Request Timeout", which the call returns (not the   *)
(* http Failure of the attempt before).                                    *)
C31_NoSuccessAfterAbort ==
    /\ [][(pc # "idle" /\ Observed(opts, combAborted, intAborted))
            => /\ Len(waits') = Len(waits)
               /\ result' # result => ~result'.ok]_vars
    /\ [][StartsAttemptOnFiredSignal
            => /\ log'[Len(log')].outcome = TimeoutFailure
               /\ pc' = "done"
               /\ result' = TimeoutFailure]_vars


\* this step fires the signal that the attempts of the call observe
SignalFires ==
    /\ ~Observed(opts, combAborted, intAborted)
    /\ Observed(opts, combAborted', intAborted')

(* C32: the inter-attempt delay is not a cancellation point: when the     *)
(* deadline or the external token fires during a delay the call stays in   *)
(* the delay, with its timer and its history untouched; it leaves a delay  *)
(* only when the whole delay has elapsed, by starting one more attempt,    *)
(* and on a fired signal that attempt issues its fetch, ends in "Request   *)
(* Timeout" at once, and the call returns.                                 *)
C32_DelayNotCancellable ==
    /\ [][(pc = "delaying" /\ SignalFires)
            => /\ pc' = "delaying"
               /\ delayState' = "armed"
               /\ delayDue' = delayDue
               /\ result' = result
               /\ log' = log
               /\ waits' = waits]_vars
    /\ [][(pc = "delaying" /\ pc' # "delaying")
            => /\ now >= waits[Len(waits)].start + opts.retry.retryDelay
               /\ Len(log') = Len(log) + 1
               /\ fetches' = fetches + 1
               /\ Observed(opts, combAborted, intAborted)
                    => /\ pc' = "done"
                       /\ result' = TimeoutFailure
                       /\ log'[Len(log')].start = now]_vars

C32_Witness ==
    /\ pc = "done" /\ result = TimeoutFailure /\ Len(log) = 2 /\ fetches = 2
    /\ timeoutState = "fired" /\ ~extAborted
    /\ opts.retry.retryDelay = MaxDelay
    /\ waits[1].start = timeoutDue /\ waits[1].end = timeoutDue + MaxDelay
    /\ log[2].start = waits[1].end
    /\ IsHttp(log[1].outcome)


(* C33: every call that has returned executed at least one attempt and     *)
(* returned a non-null Outcome, for every retry policy with an integer     *)
(* maxRetries, negative ones included: the return after the retry loop     *)
(* never yields the initial null of lastResult.                            *)
C33_AtLeastOneAttempt ==
    pc = "done" => /\ Len(log) >= 1
                   /\ result # Null


(* C34: when the external token has fired before apiFetch is called, the   *)
(* call step creates the merged signal fired, executes exactly one attempt *)
(* with one fetch, whatever the retry policy, and returns Failure network  *)
(* "Request Timeout"; a deadline armed for the call is cleared in that     *)
(* step and the internal source has not fired.                             *)
C34_TokenFiredBeforeCall ==
    [][(pc = "idle" /\ pc' # "idle" /\ opts.hasSignal /\ extAborted)
          => /\ combAborted'
             /\ Len(log') = 1
             /\ fetches' = 1
             /\ pc' = "done"
             /\ result' = TimeoutFailure
             /\ ~intAborted'
             /\ timeoutState' = IF opts.timeoutMs > 0 THEN "cleared" ELSE "none"]_vars


(* C35: in every reachable state of a call with a retry policy of          *)
(* maxRetries = N >= 0 at most N+1 attempts have been started and at most  *)
(* N+1 requests issued, whatever responses, transport failures and         *)
(* cancellations occur; and once made, the call completes, provided every  *)
(* fetch and body read it waits on is settled and every timer runs.        *)
C35_AttemptBound ==
    /\ []((HasPolicy /\ opts.retry.maxRetries >= 0)
            => /\ Len(log) <= opts.retry.maxRetries + 1
               /\ fetches <= opts.retry.maxRetries + 1
               /\ attempt <= opts.retry.maxRetries)
    /\ (pc # "idle" /\ HasPolicy /\ opts.retry.maxRetries >= 0) ~> Completed

C35_Witness ==
    /\ pc = "done" /\ HasPolicy /\ opts.retry.maxRetries = MaxRetries
    /\ Len(log) = MaxRetries + 1 /\ fetches = MaxRetries + 1
    /\ extAborted /\ result = TimeoutFailure /\ responses = MaxRetries

====
